---- MODULE Spec2Model ----
(***************************************************************************)
(* The drawing canvas of camara-canvas-generator (DrawingCanvas): the      *)
(* shape collection and the pointer interaction state, with one action per *)
(* event handler bound on the canvas and the toolbar.                      *)
(*                                                                         *)
(* Indices (shapeIndex, pointIndex) are 0-based as in the source; the      *)
(* sequences of the model are 1-based, so shapes[i + 1] reads shapes[i].   *)
(* Coordinates are integers: the pointer is drawn from the finite set Pts. *)
(*                                                                         *)
(* The environment: one mouse button (btn), the pointer (ptr: its position *)
(* during a press, Null over the canvas with no press, Outside once it has *)
(* left the canvas), and the toolbar, whose buttons can be activated at    *)
(* any time (keyboard activation needs no pointer). A press ends with its  *)
(* release on the canvas or with the pointer leaving the canvas. A         *)
(* pointer-move is modelled only while a press is in progress: outside a   *)
(* press every interaction field is cleared (IdleWhenUp below), so a       *)
(* hovering move takes the branch of handleMouseMove that does nothing.    *)
(* last is what the last handler reported: a raised error, a toast, the    *)
(* console.log payload.                                                    *)
(*                                                                         *)
(* The speech dialog (AddSpeechRecognitionComponent) is a second component *)
(* with its own state and its own specification, SpecSpeech; it shares     *)
(* nothing with the canvas, so each specification leaves the other         *)
(* component's variables unchanged.                                        *)
(*                                                                         *)
(* The dashboard (HandleComponentContextProvider and GridStack) is a third *)
(* component: the component list of the context and the layout of the      *)
(* grid, with its own specification, SpecDashboard.                        *)
(***************************************************************************)
EXTENDS Integers, Sequences, FiniteSets, TLC

VARIABLES drawingMode, isDrawing, startPoint, currentPoint, shapes,
          dragInfo, resizeInfo, draggingPoint, activePolygon,
          btn, ptr, last, events

(* The speech dialog: the dialog's open state, the component's state       *)
(* (isActiveMic, isPaused, transcript), its refs, and the browser side:    *)
(* the getUserMedia requests in flight, the tracks of the streams handed   *)
(* out, the draw loops with a frame scheduled, the recognition sessions,   *)
(* and the number of requests made so far (requests, streams, loops and    *)
(* sessions are named by the number of the request they come from).        *)
VARIABLES dialogOpen, isActiveMic, isPaused, transcript,
          streamRef, animationFrameIdRef, recognitionRef,
          pending, tracks, loops, recognitions, requested

(* The dashboard: the component list of the context, the layout of the     *)
(* grid, the ids uuidv4 has handed out, and the last call made (lastCall). *)
VARIABLES componentList, layoutValue, usedIds, lastCall

canvas == <<drawingMode, isDrawing, startPoint, currentPoint, shapes,
            dragInfo, resizeInfo, draggingPoint, activePolygon, btn, ptr, last, events>>

speech == <<dialogOpen, isActiveMic, isPaused, transcript,
            streamRef, animationFrameIdRef, recognitionRef,
            pending, tracks, loops, recognitions, requested>>

dashboard == <<componentList, layoutValue, usedIds, lastCall>>

vars == <<canvas, speech, dashboard>>

editor == <<drawingMode, isDrawing, startPoint, currentPoint, shapes,
            dragInfo, resizeInfo, draggingPoint, activePolygon>>

interaction == <<isDrawing, startPoint, currentPoint, dragInfo, resizeInfo,
                 draggingPoint>>

---------------------------------------------------------------------------
(* Bounds of the model *)

MaxEvents == 11
MaxShapes == 2
MaxRequests == 2
MaxIds == 3
MaxRow == 1

(* Program constants *)

CanvasW == 1065
CanvasH == 599
VertexThreshold == 8
CornerThreshold == 10

Pt(px, py) == [x |-> px, y |-> py]

(* Pointer positions the events are drawn from: (0,8) is exactly 8px from  *)
(* (0,0) and exactly 10px from (0,18); the other distances exceed 10px.    *)
Pts == {Pt(0, 0), Pt(0, 8), Pt(0, 18), Pt(40, 18)}

(* Positions a held pointer is moved to; (40,0) is no press position, so   *)
(* a vertex found there was moved there.                                   *)
MovePts == {Pt(0, 0), Pt(40, 18), Pt(40, 0)}

(* Pointer positions of the square-mode specification: a press at (0,0)    *)
(* released at (30,100) has the deltas 30 and 100, (30,0) to (30,100) has  *)
(* a zero delta on x, and the reverse directions have negative deltas.     *)
SquarePts == {Pt(0, 0), Pt(30, 0), Pt(30, 100), Pt(100, 100)}

(* The getUserMedia requests of a behaviour, numbered in the order made *)
Requests == 1..MaxRequests

Null == [null |-> TRUE]
Hole == [hole |-> TRUE]
Outside == [outside |-> TRUE]

---------------------------------------------------------------------------
(* Helpers *)

Range(s) == {s[k] : k \in 1..Len(s)}

SetMin(S) == CHOOSE m \in S : \A n \in S : m <= n
SetMax(S) == CHOOSE m \in S : \A n \in S : m >= n

Abs(n) == IF n < 0 THEN -n ELSE n
Max2(a, b) == IF a >= b THEN a ELSE b

(* Math.sqrt(dx * dx + dy * dy) <= r, on integers *)
Within(p, q, r) ==
  (p.x - q.x) * (p.x - q.x) + (p.y - q.y) * (p.y - q.y) <= r * r

---------------------------------------------------------------------------
(* Hit-testing *)

IsBox(shape) == shape.type = "rectangle" \/ shape.type = "square"

(* shape.points[pointIndex] = point: an index past the end pads the array  *)
(* with holes.                                                             *)
SetAt(points, j, p) ==
  IF j < Len(points)
    THEN [points EXCEPT ![j + 1] = p]
    ELSE points \o [k \in 1..(j - Len(points)) |-> Hole] \o <<p>>

(* The <<shapeIndex, pointIndex>> pairs of polygon vertices within 8px *)
PolygonPointHits(point) ==
  UNION {{<<i, j>> : j \in {k \in 0..(Len(shapes[i + 1].points) - 1) :
                              Within(point, shapes[i + 1].points[k + 1], VertexThreshold)}}
         : i \in {n \in 0..(Len(shapes) - 1) : shapes[n + 1].type = "polygon"}}

(* The loop of handleMouseDown: topmost polygon first, lowest vertex index *)
(* first.                                                                  *)
polygonPointAt(point) ==
  LET hits == PolygonPointHits(point) IN
  IF hits = {} THEN Null
  ELSE LET i == SetMax({ij[1] : ij \in hits})
           j == SetMin({ij[2] : ij \in {h \in hits : h[1] = i}})
       IN [shapeIndex |-> i, pointIndex |-> j]

CornerNames == <<"tl", "tr", "br", "bl">>

(* The corners of shape i (0-based) within 10px, as positions of           *)
(* CornerNames: { tl, tr, br, bl } is scanned in that order.               *)
CornerHits(point, i) ==
  {c \in 1..4 : Within(point, shapes[i + 1].points[c], CornerThreshold)}

getCornerAtPoint(point) ==
  LET cand == {i \in 0..(Len(shapes) - 1) :
                 IsBox(shapes[i + 1]) /\ CornerHits(point, i) # {}} IN
  IF cand = {} THEN Null
  ELSE LET i == SetMax(cand) IN
       [shapeIndex |-> i, corner |-> CornerNames[SetMin(CornerHits(point, i))]]

InBoundingBox(point, shape) ==
  LET xs == {v.x : v \in Range(shape.points)}
      ys == {v.y : v \in Range(shape.points)}
  IN /\ point.x >= SetMin(xs) /\ point.x <= SetMax(xs)
     /\ point.y >= SetMin(ys) /\ point.y <= SetMax(ys)

(* A fault: the loop run upwards, so that the bottom shape wins *)
getShapeAtPointBottomFirst(point) ==
  LET cand == {i \in 0..(Len(shapes) - 1) : InBoundingBox(point, shapes[i + 1])} IN
  IF cand = {} THEN Null ELSE [index |-> SetMin(cand)]

getShapeAtPoint(point) ==
  LET cand == {i \in 0..(Len(shapes) - 1) : InBoundingBox(point, shapes[i + 1])} IN
  IF cand = {} THEN Null ELSE [index |-> SetMax(cand)]

---------------------------------------------------------------------------
(* What a handler reports: whether it raised, the toast it showed, the     *)
(* shape count the toast carries and the payload of console.log. Silent is *)
(* the report of a handler that does none of these.                        *)

Silent == [error |-> FALSE, toast |-> "none", count |-> 0, logged |-> Null]

---------------------------------------------------------------------------
(* The dashboard: the component list and the grid's layout *)

(* uuidv4() returns an id no earlier call returned; the ids are opaque, so *)
(* the model hands them out in increasing order.                           *)
Ids == 1..MaxIds

uuidv4 == Cardinality(usedIds) + 1

ComponentTypes == {"BarChartComponent", "PieChartComponent"}

(* y: Infinity, below every row of the grid *)
Infinity == MaxRow + 1

IdsOf(list) == {list[k]._id : k \in 1..Len(list)}

LayoutIds(layout) == {layout[k].i : k \in 1..Len(layout)}

(* The layout item of a component that has none yet *)
itemConfig(comp) ==
  LET base == [i |-> comp._id, x |-> 0, y |-> Infinity, w |-> 4, h |-> 2,
               minW |-> 2, minH |-> 1]
      pie == IF comp.componentName = "PieChartComponent"
               THEN [base EXCEPT !.h = 2, !.minW = 4, !.minH = 2]
               ELSE base
  IN IF comp.componentName = "BarChartComponent"
       THEN [pie EXCEPT !.h = 2, !.minW = 2, !.minH = 1]
       ELSE pie

RECURSIVE newLayoutItems(_, _)
newLayoutItems(filteredLayout, list) ==
  IF list = <<>> THEN <<>>
  ELSE IF Head(list)._id \in LayoutIds(filteredLayout)
    THEN newLayoutItems(filteredLayout, Tail(list))
    ELSE <<itemConfig(Head(list))>> \o newLayoutItems(filteredLayout, Tail(list))

filteredLayout(currentLayout, list) ==
  SelectSeq(currentLayout, LAMBDA layoutItem : layoutItem.i \in IdsOf(list))

(* A fault: the layout items of deleted components kept *)
syncLayoutKeepsDeleted(currentLayout, list) ==
  currentLayout \o newLayoutItems(currentLayout, list)

(* The updater of the effect on [componentList] *)
syncLayout(currentLayout, list) ==
  filteredLayout(currentLayout, list) \o
    newLayoutItems(filteredLayout(currentLayout, list), list)

addedList(prev, id, componentType) ==
  Append(prev, [_id |-> id, componentName |-> componentType])

(* A fault: every item up to the one with the id removed *)
deletedListUpTo(prev, id) ==
  IF id \in IdsOf(prev)
    THEN SubSeq(prev, 1 + CHOOSE k \in 1..Len(prev) : prev[k]._id = id, Len(prev))
    ELSE prev

deletedList(prev, id) ==
  SelectSeq(prev, LAMBDA item : item._id # id)

NoCall == [op |-> "none", id |-> 0, type |-> ""]

(* The provider's initial list, with the grid mounted: the effect has run  *)
(* once on the empty layout.                                               *)
initialComponentList == <<[_id |-> 1, componentName |-> "BarChartComponent"]>>

InitDashboard ==
  /\ componentList = initialComponentList
  /\ layoutValue = syncLayout(<<>>, initialComponentList)
  /\ usedIds = {1}
  /\ lastCall = NoCall

(* addComponent, then the effect of GridStack on the new list *)
addComponent(componentType) ==
  /\ componentList' = addedList(componentList, uuidv4, componentType)
  /\ usedIds' = usedIds \cup {uuidv4}
  /\ layoutValue' = syncLayout(layoutValue, componentList')
  /\ lastCall' = [op |-> "add", id |-> uuidv4, type |-> componentType]

(* deleteComponent, then the effect of GridStack on the new list (filter   *)
(* returns a new array, so the effect runs whether an item went or not)    *)
deleteComponent(id) ==
  /\ componentList' = deletedList(componentList, id)
  /\ layoutValue' = syncLayout(layoutValue, componentList')
  /\ lastCall' = [op |-> "delete", id |-> id, type |-> ""]
  /\ UNCHANGED usedIds

(* Where the grid may put an item, and how wide *)
Places == {[x |-> 0, y |-> 0, w |-> 4], [x |-> 4, y |-> MaxRow, w |-> 6]}

(* onLayoutChange: the grid hands back the layout after a drag, a resize   *)
(* or a compaction: the same items in the same order, item k at a new      *)
(* place with a new width.                                                 *)
onLayoutChange(k, place) ==
  /\ k \in 1..Len(layoutValue)
  /\ layoutValue' =
       [layoutValue EXCEPT ![k].x = place.x, ![k].y = place.y, ![k].w = place.w]
  /\ layoutValue' # layoutValue
  /\ lastCall' = [op |-> "layout", id |-> layoutValue[k].i, type |-> ""]
  /\ UNCHANGED <<componentList, usedIds>>

(* The sidebar adds a bar chart or a pie chart; the delete icon of a chart *)
(* calls deleteComponent with the chart's id, and the context hands        *)
(* deleteComponent to every consumer, so the id may be any id.             *)
onAddComponent(componentType) ==
  /\ uuidv4 \in Ids
  /\ addComponent(componentType)

NextDashboard ==
  \/ \E componentType \in ComponentTypes :
       onAddComponent(componentType) /\ UNCHANGED <<canvas, speech>>
  \/ \E id \in Ids : deleteComponent(id) /\ UNCHANGED <<canvas, speech>>
  \/ \E k \in Ids, place \in Places :
       onLayoutChange(k, place) /\ UNCHANGED <<canvas, speech>>

---------------------------------------------------------------------------
(* The speech dialog after mount: closed, the microphone off, the refs null *)
InitSpeech ==
  /\ dialogOpen = FALSE
  /\ isActiveMic = FALSE
  /\ isPaused = FALSE
  /\ transcript = ""
  /\ streamRef = Null
  /\ animationFrameIdRef = Null
  /\ recognitionRef = Null
  /\ pending = {}
  /\ tracks = [r \in Requests |-> "none"]
  /\ loops = {}
  /\ recognitions = [r \in Requests |-> "none"]
  /\ requested = 0

Init ==
  /\ InitSpeech
  /\ InitDashboard
  /\ drawingMode = "none"
  /\ isDrawing = FALSE
  /\ startPoint = Null
  /\ currentPoint = Null
  /\ shapes = <<>>
  /\ dragInfo = Null
  /\ resizeInfo = Null
  /\ draggingPoint = Null
  /\ activePolygon = <<>>
  /\ btn = "up"
  /\ ptr = Outside
  /\ last = Silent
  /\ events = 0

---------------------------------------------------------------------------
(* handleMouseDown *)

grabShape(point) ==
  LET shapeIndex == getShapeAtPoint(point).index
      shape == shapes[shapeIndex + 1]
  IN [shapeIndex |-> shapeIndex,
      offsetX |-> point.x - shape.points[1].x,
      offsetY |-> point.y - shape.points[1].y]

(* A fault: the body test placed before the corner test *)
handleMouseDownBodyFirst(point) ==
  /\ UNCHANGED <<drawingMode, shapes, activePolygon>>
  /\ IF polygonPointAt(point) # Null
       THEN /\ draggingPoint' = polygonPointAt(point)
            /\ UNCHANGED <<isDrawing, startPoint, currentPoint, dragInfo, resizeInfo>>
     ELSE IF getShapeAtPoint(point) # Null
       THEN /\ dragInfo' = grabShape(point)
            /\ UNCHANGED <<isDrawing, startPoint, currentPoint, resizeInfo, draggingPoint>>
     ELSE IF getCornerAtPoint(point) # Null
       THEN /\ resizeInfo' = getCornerAtPoint(point)
            /\ UNCHANGED <<isDrawing, startPoint, currentPoint, dragInfo, draggingPoint>>
     ELSE IF drawingMode # "none"
       THEN /\ isDrawing' = TRUE
            /\ startPoint' = point
            /\ currentPoint' = point
            /\ UNCHANGED <<dragInfo, resizeInfo, draggingPoint>>
     ELSE UNCHANGED interaction

(* A fault: the draw mode tested before the body of the shapes *)
handleMouseDownDrawsOverBody(point) ==
  /\ UNCHANGED <<drawingMode, shapes, activePolygon>>
  /\ IF polygonPointAt(point) # Null
       THEN /\ draggingPoint' = polygonPointAt(point)
            /\ UNCHANGED <<isDrawing, startPoint, currentPoint, dragInfo, resizeInfo>>
     ELSE IF getCornerAtPoint(point) # Null
       THEN /\ resizeInfo' = getCornerAtPoint(point)
            /\ UNCHANGED <<isDrawing, startPoint, currentPoint, dragInfo, draggingPoint>>
     ELSE IF drawingMode # "none"
       THEN /\ isDrawing' = TRUE
            /\ startPoint' = point
            /\ currentPoint' = point
            /\ UNCHANGED <<dragInfo, resizeInfo, draggingPoint>>
     ELSE IF getShapeAtPoint(point) # Null
       THEN /\ dragInfo' = grabShape(point)
            /\ UNCHANGED <<isDrawing, startPoint, currentPoint, resizeInfo, draggingPoint>>
     ELSE UNCHANGED interaction

(* A fault: a drawing session started whatever the draw mode *)
handleMouseDownAlwaysDraws(point) ==
  /\ UNCHANGED <<drawingMode, shapes, activePolygon>>
  /\ IF polygonPointAt(point) # Null
       THEN /\ draggingPoint' = polygonPointAt(point)
            /\ UNCHANGED <<isDrawing, startPoint, currentPoint, dragInfo, resizeInfo>>
     ELSE IF getCornerAtPoint(point) # Null
       THEN /\ resizeInfo' = getCornerAtPoint(point)
            /\ UNCHANGED <<isDrawing, startPoint, currentPoint, dragInfo, draggingPoint>>
     ELSE IF getShapeAtPoint(point) # Null
       THEN /\ dragInfo' = grabShape(point)
            /\ UNCHANGED <<isDrawing, startPoint, currentPoint, resizeInfo, draggingPoint>>
     ELSE /\ isDrawing' = TRUE
          /\ startPoint' = point
          /\ currentPoint' = point
          /\ UNCHANGED <<dragInfo, resizeInfo, draggingPoint>>

(* A fault: no return after the corner hit, so that the body test runs too *)
handleMouseDownFallsThrough(point) ==
  /\ UNCHANGED <<drawingMode, shapes, activePolygon>>
  /\ IF polygonPointAt(point) # Null
       THEN /\ draggingPoint' = polygonPointAt(point)
            /\ UNCHANGED <<isDrawing, startPoint, currentPoint, dragInfo, resizeInfo>>
     ELSE IF getCornerAtPoint(point) # Null
       THEN /\ resizeInfo' = getCornerAtPoint(point)
            /\ dragInfo' = IF getShapeAtPoint(point) # Null THEN grabShape(point) ELSE dragInfo
            /\ UNCHANGED <<isDrawing, startPoint, currentPoint, draggingPoint>>
     ELSE IF getShapeAtPoint(point) # Null
       THEN /\ dragInfo' = grabShape(point)
            /\ UNCHANGED <<isDrawing, startPoint, currentPoint, resizeInfo, draggingPoint>>
     ELSE IF drawingMode # "none"
       THEN /\ isDrawing' = TRUE
            /\ startPoint' = point
            /\ currentPoint' = point
            /\ UNCHANGED <<dragInfo, resizeInfo, draggingPoint>>
     ELSE UNCHANGED interaction

handleMouseDown(point) ==
  /\ UNCHANGED <<drawingMode, shapes, activePolygon>>
  /\ IF polygonPointAt(point) # Null
       THEN /\ draggingPoint' = polygonPointAt(point)
            /\ UNCHANGED <<isDrawing, startPoint, currentPoint, dragInfo, resizeInfo>>
     ELSE IF getCornerAtPoint(point) # Null
       THEN /\ resizeInfo' = getCornerAtPoint(point)
            /\ UNCHANGED <<isDrawing, startPoint, currentPoint, dragInfo, draggingPoint>>
     ELSE IF getShapeAtPoint(point) # Null
       THEN /\ dragInfo' = grabShape(point)
            /\ UNCHANGED <<isDrawing, startPoint, currentPoint, resizeInfo, draggingPoint>>
     ELSE IF drawingMode # "none"
       THEN /\ isDrawing' = TRUE
            /\ startPoint' = point
            /\ currentPoint' = point
            /\ UNCHANGED <<dragInfo, resizeInfo, draggingPoint>>
     ELSE UNCHANGED interaction

---------------------------------------------------------------------------
(* handleCanvasClick. prev is the collection the functional update         *)
(* setShapes((prev) => ...) receives.                                      *)

closesPolygon(point) ==
  /\ Len(activePolygon) >= 3
  /\ Within(point, activePolygon[1], VertexThreshold)

closedPolygon == [type |-> "polygon", points |-> Append(activePolygon, activePolygon[1])]

(* A fault: the polygon closed with the click point instead of the first   *)
(* staged vertex                                                           *)
handleCanvasClickClosesAtClick(point, prev) ==
  IF drawingMode = "polygon"
    THEN IF closesPolygon(point)
           THEN /\ shapes' = Append(prev, [type |-> "polygon",
                                           points |-> Append(activePolygon, point)])
                /\ activePolygon' = <<>>
                /\ drawingMode' = "none"
           ELSE /\ activePolygon' = Append(activePolygon, point)
                /\ shapes' = prev
                /\ UNCHANGED drawingMode
    ELSE /\ shapes' = prev
         /\ UNCHANGED <<activePolygon, drawingMode>>

(* A fault: the draw mode kept after the polygon is closed *)
handleCanvasClickKeepsMode(point, prev) ==
  IF drawingMode = "polygon"
    THEN IF closesPolygon(point)
           THEN /\ shapes' = Append(prev, closedPolygon)
                /\ activePolygon' = <<>>
                /\ UNCHANGED drawingMode
           ELSE /\ activePolygon' = Append(activePolygon, point)
                /\ shapes' = prev
                /\ UNCHANGED drawingMode
    ELSE /\ shapes' = prev
         /\ UNCHANGED <<activePolygon, drawingMode>>

handleCanvasClick(point, prev) ==
  IF drawingMode = "polygon"
    THEN IF closesPolygon(point)
           THEN /\ shapes' = Append(prev, closedPolygon)
                /\ activePolygon' = <<>>
                /\ drawingMode' = "none"
           ELSE /\ activePolygon' = Append(activePolygon, point)
                /\ shapes' = prev
                /\ UNCHANGED drawingMode
    ELSE /\ shapes' = prev
         /\ UNCHANGED <<activePolygon, drawingMode>>

---------------------------------------------------------------------------
(* handleMouseMove *)

HasShape(i) == i >= 0 /\ i < Len(shapes)

(* A fault: the dragged vertex set without its closure twin *)
movePointNoTwin(shape, pointIndex, point) ==
  [shape EXCEPT !.points = SetAt(shape.points, pointIndex, point)]

(* A fault: the last vertex set on every vertex drag *)
movePointAlwaysCloses(shape, pointIndex, point) ==
  LET set == SetAt(shape.points, pointIndex, point)
  IN [shape EXCEPT !.points = [set EXCEPT ![Len(set)] = point]]

(* Case 1: the dragged polygon vertex; the first and the last vertex of a  *)
(* polygon are kept the same.                                              *)
movePoint(shape, pointIndex, point) ==
  LET set == SetAt(shape.points, pointIndex, point)
      n == Len(set)
  IN [shape EXCEPT !.points =
        IF shape.type = "polygon" /\ pointIndex = 0
          THEN [set EXCEPT ![n] = point]
        ELSE IF shape.type = "polygon" /\ pointIndex = n - 1
          THEN [set EXCEPT ![1] = point]
        ELSE set]

(* A fault: the first point put under the pointer, the grab offset dropped *)
moveShapeNoOffset(shape, offsetX, offsetY, point) ==
  LET dx == point.x - shape.points[1].x
      dy == point.y - shape.points[1].y
  IN [shape EXCEPT !.points =
        [k \in 1..Len(shape.points) |->
           Pt(shape.points[k].x + dx, shape.points[k].y + dy)]]

(* Case 3: every point shifted by the delta to the first point *)
moveShape(shape, offsetX, offsetY, point) ==
  LET dx == point.x - offsetX - shape.points[1].x
      dy == point.y - offsetY - shape.points[1].y
  IN [shape EXCEPT !.points =
        [k \in 1..Len(shape.points) |->
           Pt(shape.points[k].x + dx, shape.points[k].y + dy)]]

(* Case 4: the five points rebuilt from the dragged corner *)
resizePoints(points, corner, point) ==
  LET tl == points[1]
      tr == points[2]
      br == points[3]
      bl == points[4]
  IN CASE corner = "tl" -> <<point, Pt(tr.x, point.y), br, Pt(point.x, bl.y), point>>
       [] corner = "tr" -> <<Pt(tl.x, point.y), point, Pt(point.x, br.y), bl,
                             Pt(tl.x, point.y)>>
       [] corner = "bl" -> <<Pt(point.x, tl.y), tr, br, point, Pt(point.x, tl.y)>>
       [] corner = "br" -> <<tl, Pt(point.x, tl.y), point, Pt(tl.x, point.y), tl>>

resizeShape(shape, corner, point) ==
  [shape EXCEPT !.points = resizePoints(shape.points, corner, point)]

(* The branch handleMouseMove takes *)
moveCase ==
  IF draggingPoint # Null THEN "vertex"
  ELSE IF isDrawing /\ startPoint # Null THEN "draw"
  ELSE IF dragInfo # Null THEN "drag"
  ELSE IF resizeInfo # Null THEN "resize"
  ELSE "none"

(* shapes[shapeIndex] is undefined when the index is past the end of the   *)
(* collection, and reading its points raises a TypeError before any state  *)
(* is set.                                                                 *)
moveRaises ==
  \/ moveCase = "vertex" /\ ~HasShape(draggingPoint.shapeIndex)
  \/ moveCase = "drag" /\ ~HasShape(dragInfo.shapeIndex)
  \/ moveCase = "resize" /\ ~HasShape(resizeInfo.shapeIndex)

(* A fault: the live point following the pointer outside a drawing session *)
handleMouseMoveTracksAlways(point) ==
  /\ UNCHANGED <<drawingMode, activePolygon, isDrawing, startPoint, dragInfo,
                 resizeInfo, draggingPoint>>
  /\ IF moveRaises
       THEN UNCHANGED <<shapes, currentPoint>>
     ELSE IF moveCase = "vertex"
       THEN /\ shapes' = [shapes EXCEPT ![draggingPoint.shapeIndex + 1] =
                            movePoint(@, draggingPoint.pointIndex, point)]
            /\ UNCHANGED currentPoint
     ELSE IF moveCase = "drag"
       THEN /\ shapes' = [shapes EXCEPT ![dragInfo.shapeIndex + 1] =
                            moveShape(@, dragInfo.offsetX, dragInfo.offsetY, point)]
            /\ UNCHANGED currentPoint
     ELSE IF moveCase = "resize"
       THEN /\ shapes' = [shapes EXCEPT ![resizeInfo.shapeIndex + 1] =
                            resizeShape(@, resizeInfo.corner, point)]
            /\ UNCHANGED currentPoint
     ELSE /\ currentPoint' = point
          /\ UNCHANGED shapes

handleMouseMove(point) ==
  /\ UNCHANGED <<drawingMode, activePolygon, isDrawing, startPoint, dragInfo,
                 resizeInfo, draggingPoint>>
  /\ IF moveRaises
       THEN UNCHANGED <<shapes, currentPoint>>
     ELSE IF moveCase = "vertex"
       THEN /\ shapes' = [shapes EXCEPT ![draggingPoint.shapeIndex + 1] =
                            movePoint(@, draggingPoint.pointIndex, point)]
            /\ UNCHANGED currentPoint
     ELSE IF moveCase = "draw"
       THEN /\ currentPoint' = point
            /\ UNCHANGED shapes
     ELSE IF moveCase = "drag"
       THEN /\ shapes' = [shapes EXCEPT ![dragInfo.shapeIndex + 1] =
                            moveShape(@, dragInfo.offsetX, dragInfo.offsetY, point)]
            /\ UNCHANGED currentPoint
     ELSE IF moveCase = "resize"
       THEN /\ shapes' = [shapes EXCEPT ![resizeInfo.shapeIndex + 1] =
                            resizeShape(@, resizeInfo.corner, point)]
            /\ UNCHANGED currentPoint
     ELSE UNCHANGED <<shapes, currentPoint>>

---------------------------------------------------------------------------
(* handleMouseUp, bound to mouseup and to mouseleave *)

(* A fault: the smaller of the two deltas taken as the side *)
squarePointsMin(start, current) ==
  LET width == current.x - start.x
      height == current.y - start.y
      side == IF Abs(width) <= Abs(height) THEN Abs(width) ELSE Abs(height)
      endX == start.x + (IF width > 0 THEN side ELSE -side)
      endY == start.y + (IF height > 0 THEN side ELSE -side)
  IN <<start, Pt(endX, start.y), Pt(endX, endY), Pt(start.x, endY), start>>

squarePoints(start, current) ==
  LET width == current.x - start.x
      height == current.y - start.y
      side == Max2(Abs(width), Abs(height))
      endX == start.x + (IF width > 0 THEN side ELSE -side)
      endY == start.y + (IF height > 0 THEN side ELSE -side)
  IN <<start, Pt(endX, start.y), Pt(endX, endY), Pt(start.x, endY), start>>

(* A fault: the corners normalised to top-left first *)
rectanglePointsNormalized(start, current) ==
  LET minX == IF start.x <= current.x THEN start.x ELSE current.x
      maxX == IF start.x <= current.x THEN current.x ELSE start.x
      minY == IF start.y <= current.y THEN start.y ELSE current.y
      maxY == IF start.y <= current.y THEN current.y ELSE start.y
  IN <<Pt(minX, minY), Pt(maxX, minY), Pt(maxX, maxY), Pt(minX, maxY), Pt(minX, minY)>>

rectanglePoints(start, current) ==
  <<start, Pt(current.x, start.y), current, Pt(start.x, current.y), start>>

(* A fault: a session whose two corners coincide appends nothing *)
finalizesNonDegenerate ==
  /\ isDrawing /\ startPoint # Null /\ currentPoint # Null /\ drawingMode # "polygon"
  /\ startPoint # currentPoint

finalizes ==
  isDrawing /\ startPoint # Null /\ currentPoint # Null /\ drawingMode # "polygon"

finalizedShape ==
  [type |-> drawingMode,
   points |-> IF drawingMode = "square"
                THEN squarePoints(startPoint, currentPoint)
                ELSE rectanglePoints(startPoint, currentPoint)]

mouseUpShapes(prev) ==
  IF finalizes THEN Append(prev, finalizedShape) ELSE prev

resetInteraction ==
  /\ isDrawing' = FALSE
  /\ startPoint' = Null
  /\ currentPoint' = Null
  /\ dragInfo' = Null
  /\ resizeInfo' = Null
  /\ draggingPoint' = Null

(* A fault: the session cancelled, the drawn shape not appended *)
handleMouseUpCancel ==
  /\ resetInteraction
  /\ UNCHANGED <<shapes, drawingMode, activePolygon>>

handleMouseUp ==
  /\ shapes' = mouseUpShapes(shapes)
  /\ resetInteraction
  /\ UNCHANGED <<drawingMode, activePolygon>>

---------------------------------------------------------------------------
(* Toolbar *)

(* A fault: the staged vertices dropped when the mode leaves Polygon *)
setDrawingModeDropsStaged(mode) ==
  /\ drawingMode' = mode
  /\ activePolygon' = IF mode = "polygon" THEN activePolygon ELSE <<>>
  /\ UNCHANGED <<shapes, interaction>>

setDrawingMode(mode) ==
  /\ drawingMode' = mode
  /\ UNCHANGED <<shapes, activePolygon, interaction>>

wholeAreaShape ==
  [type |-> "rectangle",
   points |-> <<Pt(0, 0), Pt(CanvasW, 0), Pt(CanvasW, CanvasH), Pt(0, CanvasH), Pt(0, 0)>>]

(* A fault: the whole-area rectangle replacing the collection *)
selectWholeAreaReplaces ==
  /\ shapes' = <<wholeAreaShape>>
  /\ UNCHANGED <<drawingMode, activePolygon, interaction>>

selectWholeArea ==
  /\ shapes' = Append(shapes, wholeAreaShape)
  /\ UNCHANGED <<drawingMode, activePolygon, interaction>>

(* A fault: Clear also ending the interaction in progress *)
clearShapesResetsInteraction ==
  /\ shapes' = <<>>
  /\ resetInteraction
  /\ UNCHANGED <<drawingMode, activePolygon>>

clearShapes ==
  /\ shapes' = <<>>
  /\ UNCHANGED <<drawingMode, activePolygon, interaction>>

(* A fault: the empty collection reported as a success *)
submitOutcomeNoEmptyCheck ==
  [Silent EXCEPT !.toast = "success",
                        !.count = Len(shapes),
                        !.logged = [k \in 1..Len(shapes) |-> shapes[k].points]]

submitOutcome ==
  IF Len(shapes) = 0
    THEN [Silent EXCEPT !.toast = "warning"]
    ELSE [Silent EXCEPT !.toast = "success",
                               !.count = Len(shapes),
                               !.logged = [k \in 1..Len(shapes) |-> shapes[k].points]]

handleSubmit ==
  /\ last' = submitOutcome
  /\ UNCHANGED editor

---------------------------------------------------------------------------
(* The events *)

onMouseDown(point) ==
  /\ btn = "up"
  /\ handleMouseDown(point)
  /\ btn' = "down"
  /\ ptr' = point
  /\ last' = Silent

onMouseMove(point) ==
  /\ btn = "down"
  /\ handleMouseMove(point)
  /\ ptr' = point
  /\ last' = [Silent EXCEPT !.error = moveRaises]
  /\ UNCHANGED btn

(* A pointer-move over the canvas with no button held *)
onMouseHover(point) ==
  /\ btn = "up"
  /\ handleMouseMove(point)
  /\ ptr' = Null
  /\ last' = [Silent EXCEPT !.error = moveRaises]
  /\ UNCHANGED btn

(* The release of a press on the canvas: the browser dispatches mouseup    *)
(* and then click, both at the pointer's position, and nothing runs        *)
(* between the two handlers.                                               *)
onMouseUp ==
  /\ btn = "down"
  /\ resetInteraction
  /\ handleCanvasClick(ptr, mouseUpShapes(shapes))
  /\ btn' = "up"
  /\ ptr' = Null
  /\ last' = Silent

(* onMouseLeave={handleMouseUp}: the pointer leaves the canvas, which ends *)
(* the press in progress, if any.                                          *)
onMouseLeave ==
  /\ ptr # Outside
  /\ handleMouseUp
  /\ btn' = "up"
  /\ ptr' = Outside
  /\ last' = Silent

onSetDrawingMode(mode) ==
  /\ setDrawingMode(mode)
  /\ last' = Silent
  /\ UNCHANGED <<btn, ptr>>

onSelectWholeArea ==
  /\ selectWholeArea
  /\ last' = Silent
  /\ UNCHANGED <<btn, ptr>>

onClear ==
  /\ clearShapes
  /\ last' = Silent
  /\ UNCHANGED <<btn, ptr>>

onSubmit ==
  /\ handleSubmit
  /\ UNCHANGED <<btn, ptr>>

(* At most MaxEvents events, and at most MaxShapes shapes; the speech      *)
(* dialog is not involved in an event of the canvas.                       *)
Bounded ==
  /\ events < MaxEvents
  /\ events' = events + 1
  /\ Len(shapes') <= MaxShapes
  /\ UNCHANGED <<speech, dashboard>>

Next ==
  \/ \E point \in Pts : onMouseDown(point) /\ Bounded
  \/ \E point \in MovePts : onMouseMove(point) /\ Bounded
  \/ onMouseUp /\ Bounded
  \/ onMouseLeave /\ Bounded
  \/ onSetDrawingMode("rectangle") /\ Bounded
  \/ onSetDrawingMode("polygon") /\ Bounded
  \/ onSelectWholeArea /\ Bounded
  \/ onClear /\ Bounded
  \/ onSubmit /\ Bounded

Spec == Init /\ [][Next]_vars

---------------------------------------------------------------------------
(* Square mode. The Square button of the toolbar is commented out, so no   *)
(* event of Spec sets drawingMode to "square"; the square branch of        *)
(* handleMouseUp is exercised from a state with the mode already set.      *)

InitSquare ==
  /\ InitSpeech
  /\ InitDashboard
  /\ drawingMode = "square"
  /\ isDrawing = FALSE
  /\ startPoint = Null
  /\ currentPoint = Null
  /\ shapes = <<>>
  /\ dragInfo = Null
  /\ resizeInfo = Null
  /\ draggingPoint = Null
  /\ activePolygon = <<>>
  /\ btn = "up"
  /\ ptr = Outside
  /\ last = Silent
  /\ events = 0

NextSquare ==
  \/ \E point \in SquarePts : onMouseDown(point) /\ Bounded
  \/ \E point \in SquarePts : onMouseMove(point) /\ Bounded
  \/ onMouseUp /\ Bounded
  \/ onMouseLeave /\ Bounded
  \/ onClear /\ Bounded

SpecSquare == InitSquare /\ [][NextSquare]_vars

---------------------------------------------------------------------------
(* The pointer events with the moves of a pointer that holds no button,    *)
(* the two mode buttons and Clear.                                         *)

NextHover ==
  \/ \E point \in Pts : onMouseDown(point) /\ Bounded
  \/ \E point \in MovePts : onMouseMove(point) /\ Bounded
  \/ \E point \in MovePts : onMouseHover(point) /\ Bounded
  \/ onMouseUp /\ Bounded
  \/ onMouseLeave /\ Bounded
  \/ onSetDrawingMode("rectangle") /\ Bounded
  \/ onSetDrawingMode("polygon") /\ Bounded
  \/ onClear /\ Bounded

SpecHover == Init /\ [][NextHover]_vars

---------------------------------------------------------------------------
(* Square mode and Rectangle mode with Submit: the canvas starts in Square *)
(* mode as in SpecSquare, the Rectangle button switches the mode, and the  *)
(* collection is submitted.                                                *)

NextDegenerate ==
  \/ \E point \in Pts : onMouseDown(point) /\ Bounded
  \/ \E point \in MovePts : onMouseMove(point) /\ Bounded
  \/ onMouseUp /\ Bounded
  \/ onMouseLeave /\ Bounded
  \/ onSetDrawingMode("rectangle") /\ Bounded
  \/ onSubmit /\ Bounded

SpecDegenerate == InitSquare /\ [][NextDegenerate]_vars

---------------------------------------------------------------------------
(* A polygon of seven vertices. Fifteen events of Spec lead to InitLong:   *)
(* the Polygon button, six clicks staging (0,18), (40,18) four times and   *)
(* (0,0), and the closing click at (0,18). Vertex 5 of the polygon, (0,0), *)
(* is the only one within 8px of a press at (0,0). SpecLong continues from *)
(* there with the pointer events, Clear and select-whole-area.             *)

LongPolygon ==
  [type |-> "polygon",
   points |-> <<Pt(0, 18), Pt(40, 18), Pt(40, 18), Pt(40, 18), Pt(40, 18), Pt(0, 0),
                Pt(0, 18)>>]

InitLong ==
  /\ InitSpeech
  /\ InitDashboard
  /\ drawingMode = "none"
  /\ isDrawing = FALSE
  /\ startPoint = Null
  /\ currentPoint = Null
  /\ shapes = <<LongPolygon>>
  /\ dragInfo = Null
  /\ resizeInfo = Null
  /\ draggingPoint = Null
  /\ activePolygon = <<>>
  /\ btn = "up"
  /\ ptr = Null
  /\ last = Silent
  /\ events = 0

NextLong ==
  \/ \E point \in Pts : onMouseDown(point) /\ Bounded
  \/ \E point \in MovePts : onMouseMove(point) /\ Bounded
  \/ onMouseUp /\ Bounded
  \/ onMouseLeave /\ Bounded
  \/ onSelectWholeArea /\ Bounded
  \/ onClear /\ Bounded

SpecLong == InitLong /\ [][NextLong]_vars

---------------------------------------------------------------------------
(* The speech dialog. The browser is one with the Web Speech API           *)
(* (window.SpeechRecognition or webkitSpeechRecognition).                  *)

(* useEffect(..., [isActiveMic]): runs after the render in which           *)
(* isActiveMic changed; with isActiveMic true it calls getUserMedia, whose *)
(* promise is then in flight; with isActiveMic false it does nothing. It   *)
(* returns no cleanup function.                                            *)
micEffect ==
  IF isActiveMic' /\ ~isActiveMic
    THEN /\ requested' = requested + 1
         /\ pending' = pending \cup {requested + 1}
    ELSE UNCHANGED <<pending, requested>>

(* What a ref holds for the stream, the frame or the session of request r *)
Of(r) == [request |-> r]

(* The .then callback of getUserMedia for request r: the stream is stored, *)
(* a recognition session is created, stored and started, and draw() is     *)
(* called, which schedules its first frame. Nothing in it reads            *)
(* isActiveMic.                                                            *)
getUserMediaResolves(r) ==
  /\ r \in pending
  /\ pending' = pending \ {r}
  /\ streamRef' = Of(r)
  /\ tracks' = [tracks EXCEPT ![r] = "enabled"]
  /\ recognitionRef' = Of(r)
  /\ recognitions' = [recognitions EXCEPT ![r] = "started"]
  /\ animationFrameIdRef' = Of(r)
  /\ loops' = loops \cup {r}
  /\ UNCHANGED <<dialogOpen, isActiveMic, isPaused, transcript, requested>>

(* The .catch callback: the error is logged *)
getUserMediaRejects(r) ==
  /\ r \in pending
  /\ pending' = pending \ {r}
  /\ UNCHANGED <<dialogOpen, isActiveMic, isPaused, transcript, streamRef,
                 animationFrameIdRef, recognitionRef, tracks, loops, recognitions,
                 requested>>

(* draw: a frame of loop r runs; its first statement schedules the next    *)
(* frame and stores the id, before the test of canvasRef.                  *)
draw(r) ==
  /\ r \in loops
  /\ animationFrameIdRef' = Of(r)
  /\ UNCHANGED <<dialogOpen, isActiveMic, isPaused, transcript, streamRef,
                 recognitionRef, pending, tracks, loops, recognitions, requested>>

(* recognition.onresult of a started session *)
onresult(r) ==
  /\ recognitions[r] = "started"
  /\ transcript' = "text"
  /\ UNCHANGED <<dialogOpen, isActiveMic, isPaused, streamRef, animationFrameIdRef,
                 recognitionRef, pending, tracks, loops, recognitions, requested>>

handleAudioContent ==
  /\ isActiveMic' = TRUE
  /\ isPaused' = FALSE
  /\ micEffect
  /\ UNCHANGED <<dialogOpen, transcript, streamRef, animationFrameIdRef,
                 recognitionRef, tracks, loops, recognitions>>

(* recognition.start() on a session that is already started raises an      *)
(* InvalidStateError, which ends toggleMic before setIsPaused(false).      *)
toggleMic ==
  IF streamRef = Null
    THEN UNCHANGED speech
  ELSE IF isPaused
    THEN /\ tracks' = [tracks EXCEPT ![streamRef.request] = "enabled"]
         /\ IF recognitionRef # Null /\ recognitions[recognitionRef.request] = "started"
              THEN UNCHANGED <<recognitions, isPaused>>
              ELSE /\ recognitions' =
                        IF recognitionRef = Null THEN recognitions
                        ELSE [recognitions EXCEPT ![recognitionRef.request] = "started"]
                   /\ isPaused' = FALSE
         /\ UNCHANGED <<dialogOpen, isActiveMic, transcript, streamRef,
                        animationFrameIdRef, recognitionRef, pending, loops, requested>>
  ELSE /\ tracks' = [tracks EXCEPT ![streamRef.request] = "disabled"]
       /\ recognitions' =
            IF recognitionRef = Null THEN recognitions
            ELSE [recognitions EXCEPT ![recognitionRef.request] = "stopped"]
       /\ isPaused' = TRUE
       /\ UNCHANGED <<dialogOpen, isActiveMic, transcript, streamRef,
                      animationFrameIdRef, recognitionRef, pending, loops, requested>>

(* A fault: Cancel without setIsPaused(false) *)
stopAudioContentKeepsPaused ==
  /\ isActiveMic' = FALSE
  /\ UNCHANGED isPaused
  /\ tracks' = IF streamRef = Null THEN tracks
               ELSE [tracks EXCEPT ![streamRef.request] = "ended"]
  /\ streamRef' = Null
  /\ loops' = IF animationFrameIdRef = Null THEN loops
              ELSE loops \ {animationFrameIdRef.request}
  /\ animationFrameIdRef' = Null
  /\ recognitions' = IF recognitionRef = Null THEN recognitions
                     ELSE [recognitions EXCEPT ![recognitionRef.request] = "stopped"]
  /\ recognitionRef' = Null
  /\ transcript' = ""
  /\ micEffect

(* Each resource is released through its ref, if the ref is set *)
stopAudioContent ==
  /\ isActiveMic' = FALSE
  /\ isPaused' = FALSE
  /\ tracks' = IF streamRef = Null THEN tracks
               ELSE [tracks EXCEPT ![streamRef.request] = "ended"]
  /\ streamRef' = Null
  /\ loops' = IF animationFrameIdRef = Null THEN loops
              ELSE loops \ {animationFrameIdRef.request}
  /\ animationFrameIdRef' = Null
  /\ recognitions' = IF recognitionRef = Null THEN recognitions
                     ELSE [recognitions EXCEPT ![recognitionRef.request] = "stopped"]
  /\ recognitionRef' = Null
  /\ transcript' = ""
  /\ micEffect

(* The footer: which of the three microphone buttons the open dialog      *)
(* renders                                                                 *)
buttonShown(button) ==
  /\ dialogOpen
  /\ CASE button = "Mic" -> ~isActiveMic /\ ~isPaused
       [] button = "MicOff" -> isActiveMic /\ isPaused
       [] button = "Pause" -> isActiveMic /\ ~isPaused

(* The events of the dialog. The trigger opens it; Escape or a click       *)
(* outside closes it and runs no handler; the Mic button is rendered while *)
(* isActiveMic and isPaused are both false, the Pause or the Resume button *)
(* while isActiveMic is true; Cancel is a DialogClose, so it runs          *)
(* stopAudioContent and closes the dialog.                                 *)
openDialog ==
  /\ ~dialogOpen
  /\ dialogOpen' = TRUE
  /\ UNCHANGED <<isActiveMic, isPaused, transcript, streamRef, animationFrameIdRef,
                 recognitionRef, pending, tracks, loops, recognitions, requested>>

dismissDialog ==
  /\ dialogOpen
  /\ dialogOpen' = FALSE
  /\ UNCHANGED <<isActiveMic, isPaused, transcript, streamRef, animationFrameIdRef,
                 recognitionRef, pending, tracks, loops, recognitions, requested>>

onStart ==
  /\ dialogOpen
  /\ ~isActiveMic
  /\ ~isPaused
  /\ requested < MaxRequests
  /\ handleAudioContent

onToggleMic ==
  /\ dialogOpen
  /\ isActiveMic
  /\ toggleMic

onCancel ==
  /\ dialogOpen
  /\ stopAudioContent
  /\ dialogOpen' = FALSE

NextSpeech ==
  \/ openDialog /\ UNCHANGED <<canvas, dashboard>>
  \/ dismissDialog /\ UNCHANGED <<canvas, dashboard>>
  \/ onStart /\ UNCHANGED <<canvas, dashboard>>
  \/ onToggleMic /\ UNCHANGED <<canvas, dashboard>>
  \/ onCancel /\ UNCHANGED <<canvas, dashboard>>
  \/ \E r \in Requests : getUserMediaResolves(r) /\ UNCHANGED <<canvas, dashboard>>
  \/ \E r \in Requests : getUserMediaRejects(r) /\ UNCHANGED <<canvas, dashboard>>
  \/ \E r \in Requests : draw(r) /\ UNCHANGED <<canvas, dashboard>>
  \/ \E r \in Requests : onresult(r) /\ UNCHANGED <<canvas, dashboard>>

SpecSpeech == Init /\ [][NextSpeech]_vars

SpecDashboard == Init /\ [][NextDashboard]_vars

---------------------------------------------------------------------------
(* Supporting invariant: outside a press no interaction is in progress *)

IdleWhenUp ==
  btn = "up" =>
    /\ isDrawing = FALSE
    /\ startPoint = Null
    /\ currentPoint = Null
    /\ dragInfo = Null
    /\ resizeInfo = Null
    /\ draggingPoint = Null

---------------------------------------------------------------------------
(* Properties *)

(* The steps of each event, told apart by what the environment records *)
DownStep == btn = "up" /\ btn' = "down"
MoveStep == btn = "down" /\ btn' = "down" /\ onMouseMove(ptr')
UpStep == btn = "down" /\ btn' = "up" /\ ptr' = Null
LeaveStep == ptr # Outside /\ ptr' = Outside
SubmitStep == last'.toast # "none"

Dist2(p, q) == (p.x - q.x) * (p.x - q.x) + (p.y - q.y) * (p.y - q.y)

IsAxisAlignedBox(points) ==
  /\ Len(points) = 5
  /\ points[1] = points[5]
  /\ points[1].y = points[2].y
  /\ points[2].x = points[3].x
  /\ points[3].y = points[4].y
  /\ points[4].x = points[1].x

(* C1: every rectangle/square of the collection has exactly 5 vertices,    *)
(* vertex 0 equal to vertex 4, and is axis-aligned (v0.y = v1.y,           *)
(* v1.x = v2.x, v2.y = v3.y, v3.x = v0.x), in every reachable state, so    *)
(* also after every pointer-move of a resize by any corner.                *)
C1_BoxesStayAxisAligned ==
  \A k \in 1..Len(shapes) :
    (shapes[k].type = "rectangle" \/ shapes[k].type = "square")
      => IsAxisAlignedBox(shapes[k].points)

(* A pointer-move that takes the drag branch on an existing shape *)
DragMoved ==
  /\ MoveStep
  /\ draggingPoint = Null
  /\ ~(isDrawing /\ startPoint # Null)
  /\ dragInfo # Null
  /\ dragInfo.shapeIndex < Len(shapes)

(* C2: a pointer-move while dragging a shape translates it: the vertex     *)
(* count and every vertex-to-vertex offset are unchanged, vertex 0 is the  *)
(* pointer minus the grab offset recorded at pointer-down (so repeated     *)
(* moves accumulate no drift), and no other shape changes.                 *)
C2_DragIsTranslation ==
  [][DragMoved =>
       /\ Len(shapes') = Len(shapes)
       /\ \A k \in 1..Len(shapes) :
            k # dragInfo.shapeIndex + 1 => shapes'[k] = shapes[k]
       /\ shapes'[dragInfo.shapeIndex + 1].type = shapes[dragInfo.shapeIndex + 1].type
       /\ Len(shapes'[dragInfo.shapeIndex + 1].points)
            = Len(shapes[dragInfo.shapeIndex + 1].points)
       /\ \A a, b \in 1..Len(shapes[dragInfo.shapeIndex + 1].points) :
            /\ shapes'[dragInfo.shapeIndex + 1].points[a].x
                 - shapes'[dragInfo.shapeIndex + 1].points[b].x
               = shapes[dragInfo.shapeIndex + 1].points[a].x
                 - shapes[dragInfo.shapeIndex + 1].points[b].x
            /\ shapes'[dragInfo.shapeIndex + 1].points[a].y
                 - shapes'[dragInfo.shapeIndex + 1].points[b].y
               = shapes[dragInfo.shapeIndex + 1].points[a].y
                 - shapes[dragInfo.shapeIndex + 1].points[b].y
       /\ shapes'[dragInfo.shapeIndex + 1].points[1]
            = Pt(ptr'.x - dragInfo.offsetX, ptr'.y - dragInfo.offsetY)
       /\ dragInfo' = dragInfo]_vars

(* The upper of two whole-area rectangles grabbed at (0,18) and dragged to *)
(* (40,0).                                                                 *)
C2_Witness ==
  /\ btn = "down"
  /\ ptr = Pt(40, 0)
  /\ ~last.error
  /\ dragInfo = [shapeIndex |-> 1, offsetX |-> 0, offsetY |-> 18]
  /\ draggingPoint = Null
  /\ ~isDrawing
  /\ Len(shapes) = 2
  /\ shapes[1] = wholeAreaShape
  /\ shapes[2].points =
       <<Pt(40, -18), Pt(40 + CanvasW, -18), Pt(40 + CanvasW, CanvasH - 18),
         Pt(40, CanvasH - 18), Pt(40, -18)>>

PolygonsClosed(ss) ==
  \A k \in 1..Len(ss) :
    ss[k].type = "polygon" =>
      /\ Len(ss[k].points) >= 4
      /\ ss[k].points[1] = ss[k].points[Len(ss[k].points)]

(* A pointer-move that drags vertex 0 or the last vertex of a polygon *)
EndVertexMoved ==
  /\ MoveStep
  /\ draggingPoint # Null
  /\ draggingPoint.shapeIndex < Len(shapes)
  /\ shapes[draggingPoint.shapeIndex + 1].type = "polygon"
  /\ \/ draggingPoint.pointIndex = 0
     \/ draggingPoint.pointIndex = Len(shapes[draggingPoint.shapeIndex + 1].points) - 1

(* C3: every polygon of the collection has at least 4 vertices and its     *)
(* first vertex equals its last, in every reachable state; a pointer-move  *)
(* that drags vertex 0 or the last vertex of a polygon makes the first and *)
(* the last vertex both the pointer point.                                 *)
C3_PolygonsStayClosed ==
  /\ PolygonsClosed(shapes)
  /\ [][/\ PolygonsClosed(shapes')
        /\ EndVertexMoved =>
             /\ shapes'[draggingPoint.shapeIndex + 1].points[1] = ptr'
             /\ shapes'[draggingPoint.shapeIndex + 1].points[
                  Len(shapes'[draggingPoint.shapeIndex + 1].points)] = ptr']_vars

(* Vertex 0 of a 4-vertex polygon dragged to (40,0), which is no press     *)
(* position and within 8px of none.                                        *)
C3_Witness ==
  /\ btn = "down"
  /\ ptr = Pt(40, 0)
  /\ draggingPoint # Null
  /\ draggingPoint.shapeIndex < Len(shapes)
  /\ draggingPoint.pointIndex = 0
  /\ shapes[draggingPoint.shapeIndex + 1].type = "polygon"
  /\ Len(shapes[draggingPoint.shapeIndex + 1].points) = 4
  /\ shapes[draggingPoint.shapeIndex + 1].points[1] = ptr
  /\ shapes[draggingPoint.shapeIndex + 1].points[4] = ptr
  /\ shapes[draggingPoint.shapeIndex + 1].points[2] # ptr
  /\ shapes[draggingPoint.shapeIndex + 1].points[3] # ptr

NearVertex(point) ==
  \E k \in 1..Len(shapes) :
    /\ shapes[k].type = "polygon"
    /\ \E v \in 1..Len(shapes[k].points) :
         Dist2(point, shapes[k].points[v]) <= VertexThreshold * VertexThreshold

NearCorner(point) ==
  \E k \in 1..Len(shapes) :
    /\ shapes[k].type = "rectangle" \/ shapes[k].type = "square"
    /\ \E c \in 1..4 :
         Dist2(point, shapes[k].points[c]) <= CornerThreshold * CornerThreshold

InBody(point) ==
  \E k \in 1..Len(shapes) :
    /\ \E v \in 1..Len(shapes[k].points) : shapes[k].points[v].x <= point.x
    /\ \E v \in 1..Len(shapes[k].points) : shapes[k].points[v].x >= point.x
    /\ \E v \in 1..Len(shapes[k].points) : shapes[k].points[v].y <= point.y
    /\ \E v \in 1..Len(shapes[k].points) : shapes[k].points[v].y >= point.y

(* C4: pointer-down applies the hit tests in priority order, first match   *)
(* wins: within 8px (inclusive) of a polygon vertex it starts a vertex     *)
(* drag, whatever corner or body is also hit; otherwise within 10px        *)
(* (inclusive) of a rectangle/square corner it starts a resize, whatever   *)
(* body is also hit; otherwise inside a bounding box it starts a shape     *)
(* drag; otherwise, with a draw mode selected, it starts a drawing         *)
(* session; otherwise nothing. Nothing but the matched interaction is set. *)
C4_HitTestPriority ==
  [][DownStep =>
       IF NearVertex(ptr')
         THEN /\ draggingPoint' # Null
              /\ shapes[draggingPoint'.shapeIndex + 1].type = "polygon"
              /\ Dist2(ptr', shapes[draggingPoint'.shapeIndex + 1].points[
                               draggingPoint'.pointIndex + 1])
                   <= VertexThreshold * VertexThreshold
              /\ UNCHANGED <<resizeInfo, dragInfo, isDrawing, startPoint, currentPoint>>
       ELSE IF NearCorner(ptr')
         THEN /\ resizeInfo' # Null
              /\ UNCHANGED <<draggingPoint, dragInfo, isDrawing, startPoint, currentPoint>>
       ELSE IF InBody(ptr')
         THEN /\ dragInfo' # Null
              /\ UNCHANGED <<draggingPoint, resizeInfo, isDrawing, startPoint, currentPoint>>
       ELSE IF drawingMode # "none"
         THEN /\ isDrawing' = TRUE
              /\ startPoint' = ptr'
              /\ currentPoint' = ptr'
              /\ UNCHANGED <<draggingPoint, resizeInfo, dragInfo>>
       ELSE UNCHANGED <<draggingPoint, resizeInfo, dragInfo, isDrawing, startPoint,
                        currentPoint>>]_vars

(* A press at (0,8), held: exactly 8px from the nearest vertex of a        *)
(* polygon, within 10px of the corner (0,0) of the whole-area rectangle    *)
(* above it, and inside that rectangle's body; the vertex wins.            *)
C4_Witness ==
  /\ btn = "down"
  /\ ptr = Pt(0, 8)
  /\ Len(shapes) = 2
  /\ shapes[1].type = "polygon"
  /\ shapes[2] = wholeAreaShape
  /\ \A v \in 1..Len(shapes[1].points) :
       Dist2(ptr, shapes[1].points[v]) >= VertexThreshold * VertexThreshold
  /\ draggingPoint = [shapeIndex |-> 0, pointIndex |-> 0]
  /\ resizeInfo = Null
  /\ dragInfo = Null
  /\ ~isDrawing

(* C5: at most one interaction is active in every reachable state: among   *)
(* drawing (isDrawing), shape drag (dragInfo set), resize (resizeInfo      *)
(* set), vertex drag (draggingPoint set) and polygon building (staged      *)
(* vertices non-empty) no two are active together.                         *)
C5_AtMostOneInteraction ==
  Cardinality({n \in 1..5 :
                 \/ n = 1 /\ isDrawing
                 \/ n = 2 /\ dragInfo # Null
                 \/ n = 3 /\ resizeInfo # Null
                 \/ n = 4 /\ draggingPoint # Null
                 \/ n = 5 /\ Len(activePolygon) > 0}) <= 1

(* A drawing session the mouseup handler finalizes *)
Finalizing ==
  /\ isDrawing
  /\ startPoint # Null
  /\ currentPoint # Null
  /\ drawingMode # "polygon"

(* C6: a pointer-up and a pointer-leave both end with isDrawing false,     *)
(* the anchor and the live point cleared and dragInfo, resizeInfo and      *)
(* draggingPoint cleared; pointer-leave has the successor of the mouseup   *)
(* handler, appending the shape of an active non-polygon drawing session   *)
(* exactly as pointer-up does, and changes nothing else.                   *)
C6_UpAndLeaveReset ==
  [][(UpStep \/ LeaveStep) =>
       /\ isDrawing' = FALSE
       /\ startPoint' = Null
       /\ currentPoint' = Null
       /\ dragInfo' = Null
       /\ resizeInfo' = Null
       /\ draggingPoint' = Null
       /\ (LeaveStep \/ drawingMode # "polygon") =>
            /\ UNCHANGED <<drawingMode, activePolygon>>
            /\ IF Finalizing
                 THEN /\ Len(shapes') = Len(shapes) + 1
                      /\ SubSeq(shapes', 1, Len(shapes)) = shapes
                      /\ shapes'[Len(shapes')].type = drawingMode
                      /\ shapes'[Len(shapes')].points[1] = startPoint
                      /\ drawingMode = "rectangle" =>
                           shapes'[Len(shapes')].points[3] = currentPoint
                 ELSE shapes' = shapes]_vars

(* The pointer left the canvas during a rectangle drawing session begun at *)
(* (0,0) with the live point at (40,18): the rectangle was appended and    *)
(* the session is over.                                                    *)
C6_Witness ==
  /\ ptr = Outside
  /\ events = 4
  /\ drawingMode = "rectangle"
  /\ shapes = <<[type |-> "rectangle",
                 points |-> <<Pt(0, 0), Pt(40, 0), Pt(40, 18), Pt(0, 18), Pt(0, 0)>>]>>
  /\ ~isDrawing
  /\ startPoint = Null
  /\ currentPoint = Null
  /\ dragInfo = Null
  /\ resizeInfo = Null
  /\ draggingPoint = Null

(* C7: no handler raises an error: whenever pointer-move processes a shape *)
(* drag, a resize or a vertex drag, the shape index it holds refers to an  *)
(* existing shape, also when Clear ran during the interaction.             *)
C7_NoHandlerRaises == last.error = FALSE

(* C8: submit on an empty collection reports a warning and emits nothing;  *)
(* submit with N >= 1 shapes reports a success carrying N and emits the N  *)
(* vertex lists in collection order; in both cases the collection, the     *)
(* draw mode, the staged polygon and the interaction state are unchanged.  *)
C8_SubmitReportsAndKeeps ==
  [][SubmitStep =>
       /\ UNCHANGED <<shapes, drawingMode, activePolygon, isDrawing, startPoint,
                      currentPoint, dragInfo, resizeInfo, draggingPoint>>
       /\ last'.error = FALSE
       /\ IF Len(shapes) = 0
            THEN /\ last'.toast = "warning"
                 /\ last'.logged = Null
            ELSE /\ last'.toast = "success"
                 /\ last'.count = Len(shapes)
                 /\ Len(last'.logged) = Len(shapes)
                 /\ \A k \in 1..Len(shapes) : last'.logged[k] = shapes[k].points]_vars

(* Two different shapes submitted during a shape drag *)
C8_Witness ==
  /\ last.toast = "success"
  /\ last.count = 2
  /\ Len(shapes) = 2
  /\ shapes[1].points # shapes[2].points
  /\ last.logged = <<shapes[1].points, shapes[2].points>>
  /\ dragInfo # Null

(* C9: pointer-up in a rectangle-mode drawing session with anchor a and    *)
(* live point l appends exactly one shape of kind rectangle with the       *)
(* vertices (a.x,a.y), (l.x,a.y), (l.x,l.y), (a.x,l.y), (a.x,a.y).         *)
C9_RectangleFinalize ==
  [][(UpStep /\ Finalizing /\ drawingMode = "rectangle") =>
       shapes' = Append(shapes,
                   [type |-> "rectangle",
                    points |-> <<Pt(startPoint.x, startPoint.y),
                                 Pt(currentPoint.x, startPoint.y),
                                 Pt(currentPoint.x, currentPoint.y),
                                 Pt(startPoint.x, currentPoint.y),
                                 Pt(startPoint.x, startPoint.y)>>])]_vars

(* A rectangle drawn from (40,18) back to (0,0) and released on the        *)
(* canvas: the vertices follow the raw deltas.                             *)
C9_Witness ==
  /\ ptr = Null
  /\ events = 4
  /\ shapes = <<[type |-> "rectangle",
                 points |-> <<Pt(40, 18), Pt(0, 18), Pt(0, 0), Pt(40, 0), Pt(40, 18)>>]>>

(* C10: pointer-up in a square-mode drawing session with anchor a and live *)
(* point l appends exactly one closed 5-vertex axis-aligned shape of kind  *)
(* square with vertex 0 at the anchor, whose width and height both have    *)
(* the magnitude max(|l.x - a.x|, |l.y - a.y|), each axis extended in the  *)
(* direction of the drag on that axis.                                     *)
C10_SquareFinalize ==
  [][(UpStep /\ Finalizing /\ drawingMode = "square") =>
       /\ Len(shapes') = Len(shapes) + 1
       /\ SubSeq(shapes', 1, Len(shapes)) = shapes
       /\ shapes'[Len(shapes')].type = "square"
       /\ IsAxisAlignedBox(shapes'[Len(shapes')].points)
       /\ shapes'[Len(shapes')].points[1] = startPoint
       /\ Abs(shapes'[Len(shapes')].points[3].x - startPoint.x)
            = Max2(Abs(currentPoint.x - startPoint.x), Abs(currentPoint.y - startPoint.y))
       /\ Abs(shapes'[Len(shapes')].points[3].y - startPoint.y)
            = Max2(Abs(currentPoint.x - startPoint.x), Abs(currentPoint.y - startPoint.y))
       /\ currentPoint.x > startPoint.x => shapes'[Len(shapes')].points[3].x >= startPoint.x
       /\ currentPoint.x < startPoint.x => shapes'[Len(shapes')].points[3].x <= startPoint.x
       /\ currentPoint.y > startPoint.y => shapes'[Len(shapes')].points[3].y >= startPoint.y
       /\ currentPoint.y < startPoint.y => shapes'[Len(shapes')].points[3].y <= startPoint.y]_vars

(* The square drawn from (0,0) to (30,100) and released on the canvas *)
C10_Witness ==
  /\ ptr = Null
  /\ events = 3
  /\ shapes = <<[type |-> "square",
                 points |-> <<Pt(0, 0), Pt(100, 0), Pt(100, 100), Pt(0, 100), Pt(0, 0)>>]>>

(* C11: a canvas click in polygon mode with at least 3 staged vertices     *)
(* that lands within 8px (inclusive) of the first staged vertex appends    *)
(* one polygon whose vertices are the staged vertices followed by the      *)
(* first staged vertex again (not the click point), empties the staged     *)
(* list and sets the draw mode to none; any other click in polygon mode    *)
(* appends the click point to the staged list and leaves the collection    *)
(* and the mode unchanged; a click in any other mode changes nothing (the  *)
(* collection is the one the mouseup before it left). The click lands      *)
(* where the pointer was released, ptr.                                    *)
C11_PolygonClick ==
  [][UpStep =>
       IF drawingMode = "polygon"
         THEN IF /\ Len(activePolygon) >= 3
                 /\ Dist2(ptr, activePolygon[1]) <= VertexThreshold * VertexThreshold
                THEN /\ Len(shapes') = Len(shapes) + 1
                     /\ SubSeq(shapes', 1, Len(shapes)) = shapes
                     /\ shapes'[Len(shapes')].type = "polygon"
                     /\ shapes'[Len(shapes')].points
                          = activePolygon \o <<activePolygon[1]>>
                     /\ activePolygon' = <<>>
                     /\ drawingMode' = "none"
                ELSE /\ activePolygon' = activePolygon \o <<ptr>>
                     /\ shapes' = shapes
                     /\ drawingMode' = drawingMode
         ELSE /\ UNCHANGED <<activePolygon, drawingMode>>
              /\ IF Finalizing
                   THEN Len(shapes') = Len(shapes) + 1
                   ELSE shapes' = shapes]_vars

(* A polygon staged at (0,0), (0,18), (40,18) and closed: its last vertex  *)
(* is the first staged vertex, the staged list is empty and the mode none. *)
C11_Witness ==
  /\ ptr = Null
  /\ events = 9
  /\ drawingMode = "none"
  /\ activePolygon = <<>>
  /\ shapes = <<[type |-> "polygon",
                 points |-> <<Pt(0, 0), Pt(0, 18), Pt(40, 18), Pt(0, 0)>>]>>

(* C12: only Clear removes shapes: every other event (pointer-down, -move, *)
(* -up, -leave, click, mode-select, select-whole-area, submit) keeps every *)
(* existing shape at its index with the same kind and vertex count, and    *)
(* appends at most one shape, always at the end.                           *)
C12_OnlyClearRemoves ==
  [][~onClear =>
       /\ Len(shapes') >= Len(shapes)
       /\ Len(shapes') <= Len(shapes) + 1
       /\ \A k \in 1..Len(shapes) :
            /\ shapes'[k].type = shapes[k].type
            /\ Len(shapes'[k].points) = Len(shapes[k].points)]_vars

(* C13: Clear empties the shape collection and leaves everything else      *)
(* unchanged: the draw mode, the staged polygon vertices, isDrawing with   *)
(* its anchor and live point, dragInfo, resizeInfo and draggingPoint keep  *)
(* their values.                                                           *)
C13_ClearFrame ==
  [][onClear =>
       /\ shapes' = <<>>
       /\ drawingMode' = drawingMode
       /\ activePolygon' = activePolygon
       /\ isDrawing' = isDrawing
       /\ startPoint' = startPoint
       /\ currentPoint' = currentPoint
       /\ dragInfo' = dragInfo
       /\ resizeInfo' = resizeInfo
       /\ draggingPoint' = draggingPoint]_vars

(* Clear during a shape drag in polygon mode with a staged vertex: the     *)
(* collection is empty, the drag, the mode and the staged vertex remain.   *)
C13_Witness ==
  /\ shapes = <<>>
  /\ btn = "down"
  /\ dragInfo # Null
  /\ drawingMode = "polygon"
  /\ Len(activePolygon) = 1

(* C14: select-whole-area, in any draw mode and any interaction state,     *)
(* appends exactly one rectangle with the vertices (0,0), (w,0), (w,h),    *)
(* (0,h), (0,0), w and h the canvas width and height, at the end of the    *)
(* collection; the draw mode, the staged polygon and the interaction state *)
(* are unchanged.                                                          *)
C14_WholeAreaAppends ==
  [][onSelectWholeArea =>
       /\ Len(shapes') = Len(shapes) + 1
       /\ SubSeq(shapes', 1, Len(shapes)) = shapes
       /\ shapes'[Len(shapes')] =
            [type |-> "rectangle",
             points |-> <<Pt(0, 0), Pt(1065, 0), Pt(1065, 599), Pt(0, 599), Pt(0, 0)>>]
       /\ drawingMode' = drawingMode
       /\ activePolygon' = activePolygon
       /\ isDrawing' = isDrawing
       /\ startPoint' = startPoint
       /\ currentPoint' = currentPoint
       /\ dragInfo' = dragInfo
       /\ resizeInfo' = resizeInfo
       /\ draggingPoint' = draggingPoint]_vars

(* select-whole-area during an open rectangle drawing session, with       *)
(* another shape already in the collection: the whole-area rectangle is    *)
(* the second shape and the session is still open.                         *)
C14_Witness ==
  /\ btn = "down"
  /\ isDrawing
  /\ startPoint # Null
  /\ drawingMode = "rectangle"
  /\ Len(shapes) = 2
  /\ shapes[1].points[1] # Pt(0, 0)
  /\ shapes[2] =
       [type |-> "rectangle",
        points |-> <<Pt(0, 0), Pt(1065, 0), Pt(1065, 599), Pt(0, 599), Pt(0, 0)>>]

(* C15: pointer-down never changes the shape collection, the staged        *)
(* polygon or the draw mode; it sets at most one of vertex drag, resize,   *)
(* shape drag and drawing per event; with draw mode none and no hit it     *)
(* changes nothing.                                                        *)
C15_DownSetsOneInteraction ==
  [][DownStep =>
       /\ shapes' = shapes
       /\ activePolygon' = activePolygon
       /\ drawingMode' = drawingMode
       /\ Cardinality({n \in 1..4 :
                         \/ n = 1 /\ draggingPoint' # draggingPoint
                         \/ n = 2 /\ resizeInfo' # resizeInfo
                         \/ n = 3 /\ dragInfo' # dragInfo
                         \/ n = 4 /\ <<isDrawing, startPoint, currentPoint>>'
                                        # <<isDrawing, startPoint, currentPoint>>}) <= 1
       /\ (drawingMode = "none" /\ ~NearVertex(ptr') /\ ~NearCorner(ptr') /\ ~InBody(ptr'))
            => UNCHANGED interaction]_vars

(* A press at (40,18) with the mode none, outside the only shape, a        *)
(* polygon on the line x = 0: no interaction was started.                  *)
C15_Witness ==
  /\ btn = "down"
  /\ ptr = Pt(40, 18)
  /\ drawingMode = "none"
  /\ Len(shapes) = 1
  /\ shapes[1].type = "polygon"
  /\ \A v \in 1..Len(shapes[1].points) : shapes[1].points[v].x = 0
  /\ ~isDrawing
  /\ startPoint = Null
  /\ dragInfo = Null
  /\ resizeInfo = Null
  /\ draggingPoint = Null

(* A release whose click closes the staged polygon *)
ClosingClick ==
  /\ UpStep
  /\ drawingMode = "polygon"
  /\ Len(activePolygon) >= 3
  /\ Dist2(ptr, activePolygon[1]) <= VertexThreshold * VertexThreshold

(* C16: finalizing a rectangle or square on pointer-up leaves the draw     *)
(* mode unchanged, so that the next pointer-down on empty canvas starts    *)
(* another drawing session in the same mode; finalizing a polygon sets the *)
(* draw mode to none; no other event of the editor changes the draw mode,  *)
(* except the mode selector.                                               *)
C16_ModeAfterFinalize ==
  [][/\ (UpStep /\ Finalizing) => drawingMode' = drawingMode
     /\ ClosingClick => drawingMode' = "none"
     /\ drawingMode' # drawingMode =>
          \/ ClosingClick
          \/ onSetDrawingMode("rectangle")
          \/ onSetDrawingMode("polygon")]_vars

(* Two rectangles drawn one after the other, at (0,0) and at (40,18), with *)
(* the Rectangle button used once: the mode is still rectangle.            *)
C16_Witness ==
  /\ ptr = Null
  /\ events = 5
  /\ drawingMode = "rectangle"
  /\ Len(shapes) = 2
  /\ shapes[1].type = "rectangle"
  /\ shapes[1].points[1] = Pt(0, 0)
  /\ shapes[2].type = "rectangle"
  /\ shapes[2].points[1] = Pt(40, 18)

(* C17: for every rectangle/square of the collection, in every reachable   *)
(* state, the vertices are ordered top-left, top-right, bottom-right,      *)
(* bottom-left, top-left: vertex 0 has the minimum x and the minimum y of  *)
(* the box, vertex 1 the maximum x and the minimum y, vertex 2 the maximum *)
(* x and the maximum y, vertex 3 the minimum x and the maximum y, whatever *)
(* the drag direction used to draw the shape and whatever resizes          *)
(* followed.                                                               *)
C17_CornersOrdered ==
  \A k \in 1..Len(shapes) :
    (shapes[k].type = "rectangle" \/ shapes[k].type = "square") =>
      LET points == shapes[k].points
          minX == SetMin({points[c].x : c \in 1..4})
          maxX == SetMax({points[c].x : c \in 1..4})
          minY == SetMin({points[c].y : c \in 1..4})
          maxY == SetMax({points[c].y : c \in 1..4})
      IN /\ points[1] = Pt(minX, minY)
         /\ points[2] = Pt(maxX, minY)
         /\ points[3] = Pt(maxX, maxY)
         /\ points[4] = Pt(minX, maxY)
         /\ points[5] = Pt(minX, minY)

(* A pointer-move that takes the resize branch on an existing shape *)
ResizeMoved ==
  /\ MoveStep
  /\ draggingPoint = Null
  /\ ~(isDrawing /\ startPoint # Null)
  /\ dragInfo = Null
  /\ resizeInfo # Null
  /\ resizeInfo.shapeIndex < Len(shapes)

(* The vertex numbers of a corner, of its diagonal opposite, of its        *)
(* neighbour on the same horizontal side and of its neighbour on the same  *)
(* vertical side                                                           *)
CornerRule(corner) ==
  CASE corner = "tl" -> [moved |-> 1, opposite |-> 3, beside |-> 2, below |-> 4]
    [] corner = "tr" -> [moved |-> 2, opposite |-> 4, beside |-> 1, below |-> 3]
    [] corner = "br" -> [moved |-> 3, opposite |-> 1, beside |-> 4, below |-> 2]
    [] corner = "bl" -> [moved |-> 4, opposite |-> 2, beside |-> 3, below |-> 1]

(* C19: a pointer-move of a resize follows the per-corner reconstruction   *)
(* rule for each of tl, tr, bl and br: the moved corner becomes the        *)
(* pointer position, the diagonally opposite corner is unchanged, each of  *)
(* the two adjacent corners takes one coordinate from the pointer and the  *)
(* other from the fixed opposite corner, and vertex 4 equals the new       *)
(* vertex 0; no other shape changes.                                       *)
C19_ResizeRule ==
  [][ResizeMoved =>
       LET i == resizeInfo.shapeIndex + 1
           rule == CornerRule(resizeInfo.corner)
           old == shapes[i].points
           new == shapes'[i].points
       IN /\ Len(shapes') = Len(shapes)
          /\ \A k \in 1..Len(shapes) : k # i => shapes'[k] = shapes[k]
          /\ shapes'[i].type = shapes[i].type
          /\ Len(new) = 5
          /\ new[rule.moved] = ptr'
          /\ new[rule.opposite] = old[rule.opposite]
          /\ new[rule.beside] = Pt(old[rule.opposite].x, ptr'.y)
          /\ new[rule.below] = Pt(ptr'.x, old[rule.opposite].y)
          /\ new[5] = new[1]]_vars

(* C20: every shape of the collection has kind rectangle, square or        *)
(* polygon in every reachable state: no sequence of pointer, click and     *)
(* mode events appends a shape whose kind is none.                         *)
C20_ShapeKinds ==
  \A k \in 1..Len(shapes) :
    shapes[k].type \in {"rectangle", "square", "polygon"}

(* A polygon closed above a rectangle: the closing click has set the mode  *)
(* to none after the mouseup of the same release, and the collection holds *)
(* the two shapes only.                                                    *)
C20_Witness ==
  /\ btn = "up"
  /\ drawingMode = "none"
  /\ activePolygon = <<>>
  /\ Len(shapes) = 2
  /\ shapes[1].type = "rectangle"
  /\ shapes[2].type = "polygon"

(* C18: the speech dialog cleans up when stopped: after Cancel             *)
(* (stopAudioContent), while the microphone is not started again, no       *)
(* microphone stream track, no animation-frame loop and no                 *)
(* speech-recognition session remains running, for every interleaving of   *)
(* Start, Pause/Resume, Cancel and the asynchronous resolution of the      *)
(* microphone request, including Cancel arriving before the request        *)
(* resolves.                                                               *)
C18_StoppedIsClean ==
  ~isActiveMic =>
    /\ \A r \in Requests : tracks[r] \in {"none", "ended"}
    /\ loops = {}
    /\ \A r \in Requests : recognitions[r] \in {"none", "stopped"}

(* C21: in polygon mode a vertex is appended to the staged polygon only    *)
(* when the pointer press matched none of the first three hit-test steps:  *)
(* a press that landed on a polygon vertex, a rectangle/square corner or   *)
(* inside a bounding box (and so started a vertex drag, a resize or a      *)
(* shape drag) does not also append a staged vertex or close the staged    *)
(* polygon when it is released.                                            *)
C21_HitPressStagesNothing ==
  [][(/\ UpStep
      /\ drawingMode = "polygon"
      /\ (draggingPoint # Null \/ resizeInfo # Null \/ dragInfo # Null)) =>
       /\ activePolygon' = activePolygon
       /\ Len(shapes') = Len(shapes)
       /\ drawingMode' = drawingMode]_vars

(* The bounding box of shape k, boundaries included, contains the point *)
BoxContains(k, point) ==
  /\ \E v \in 1..Len(shapes[k].points) : shapes[k].points[v].x <= point.x
  /\ \E v \in 1..Len(shapes[k].points) : shapes[k].points[v].x >= point.x
  /\ \E v \in 1..Len(shapes[k].points) : shapes[k].points[v].y <= point.y
  /\ \E v \in 1..Len(shapes[k].points) : shapes[k].points[v].y >= point.y

(* Shape k is a rectangle/square with a corner within 10px of the point *)
CornerNear(k, point) ==
  /\ shapes[k].type = "rectangle" \/ shapes[k].type = "square"
  /\ \E c \in 1..4 :
       Dist2(point, shapes[k].points[c]) <= CornerThreshold * CornerThreshold

(* C22: a body hit on pointer-down selects the highest-index (topmost)     *)
(* shape whose axis-aligned bounding box (min/max of all its vertex x and  *)
(* y, boundaries inclusive) contains the pointer, for polygons as well as  *)
(* rectangles, and records the grab offset as the pointer minus that       *)
(* shape's vertex 0 (not minus the bounding-box origin); a corner hit      *)
(* likewise picks the topmost rectangle/square having a corner within      *)
(* 10px.                                                                   *)
C22_TopmostHit ==
  [][DownStep =>
       /\ dragInfo' # Null =>
            /\ dragInfo'.shapeIndex + 1 \in 1..Len(shapes)
            /\ BoxContains(dragInfo'.shapeIndex + 1, ptr')
            /\ \A k \in 1..Len(shapes) :
                 k > dragInfo'.shapeIndex + 1 => ~BoxContains(k, ptr')
            /\ dragInfo'.offsetX = ptr'.x - shapes[dragInfo'.shapeIndex + 1].points[1].x
            /\ dragInfo'.offsetY = ptr'.y - shapes[dragInfo'.shapeIndex + 1].points[1].y
       /\ resizeInfo' # Null =>
            /\ resizeInfo'.shapeIndex + 1 \in 1..Len(shapes)
            /\ CornerNear(resizeInfo'.shapeIndex + 1, ptr')
            /\ \A k \in 1..Len(shapes) :
                 k > resizeInfo'.shapeIndex + 1 => ~CornerNear(k, ptr')]_vars

(* A press at (0,8) inside the bounding box of a polygon whose vertex 0 is *)
(* (0,18), 10px away, with the box reaching up to y = 0: the offset is     *)
(* (0,-10), taken from vertex 0, where the bounding-box origin would give  *)
(* (0,8).                                                                  *)
C22_Witness ==
  /\ btn = "down"
  /\ ptr = Pt(0, 8)
  /\ Len(shapes) = 1
  /\ shapes[1].type = "polygon"
  /\ shapes[1].points[1] = Pt(0, 18)
  /\ \E v \in 1..Len(shapes[1].points) : shapes[1].points[v].y = 0
  /\ dragInfo = [shapeIndex |-> 0, offsetX |-> 0, offsetY |-> -10]
  /\ draggingPoint = Null
  /\ resizeInfo = Null

(* A pointer-move that drags a vertex of a polygon *)
VertexMoved ==
  /\ MoveStep
  /\ draggingPoint # Null
  /\ draggingPoint.shapeIndex < Len(shapes)
  /\ shapes[draggingPoint.shapeIndex + 1].type = "polygon"

(* C23: a pointer-move of a vertex drag {shapeIndex, vertexIndex} sets     *)
(* that vertex to the pointer point and changes nothing else: apart from   *)
(* the closure twin (the last vertex when vertexIndex is 0, the first when *)
(* vertexIndex is the last index), every other vertex of that polygon, its *)
(* vertex count, and every other shape are unchanged.                      *)
C23_VertexDragFrame ==
  [][VertexMoved =>
       LET i == draggingPoint.shapeIndex + 1
           j == draggingPoint.pointIndex + 1
           n == Len(shapes[i].points)
           twin == IF j = 1 THEN n ELSE IF j = n THEN 1 ELSE j
       IN /\ Len(shapes') = Len(shapes)
          /\ \A k \in 1..Len(shapes) : k # i => shapes'[k] = shapes[k]
          /\ shapes'[i].type = shapes[i].type
          /\ Len(shapes'[i].points) = n
          /\ shapes'[i].points[j] = ptr'
          /\ \A v \in 1..n :
               (v # j /\ v # twin) => shapes'[i].points[v] = shapes[i].points[v]
          /\ UNCHANGED <<drawingMode, activePolygon, interaction>>]_vars

(* Vertex 1 of a 4-vertex polygon, neither the first nor the last, dragged *)
(* from (0,18) to (40,0): the other three vertices are where they were     *)
(* staged.                                                                 *)
C23_Witness ==
  /\ btn = "down"
  /\ ptr = Pt(40, 0)
  /\ draggingPoint = [shapeIndex |-> 0, pointIndex |-> 1]
  /\ Len(shapes) = 1
  /\ shapes[1] = [type |-> "polygon",
                  points |-> <<Pt(0, 0), Pt(40, 0), Pt(40, 18), Pt(0, 0)>>]

(* A pointer-move with no button held *)
HoverStep == btn = "up" /\ btn' = "up" /\ \E point \in MovePts : onMouseHover(point)

HasWholeArea ==
  \E k \in 1..Len(shapes) :
    shapes[k] = [type |-> "rectangle",
                 points |-> <<Pt(0, 0), Pt(1065, 0), Pt(1065, 599), Pt(0, 599), Pt(0, 0)>>]

InCanvas(point) ==
  /\ point.x >= 0 /\ point.x <= 1065
  /\ point.y >= 0 /\ point.y <= 599

(* C25: existing shapes shadow drawing: in any draw mode a pointer-down at *)
(* a point inside the bounding box of an existing shape never starts a     *)
(* drawing session; consequently, while a whole-area rectangle with the    *)
(* vertices select-whole-area gave it is in the collection, no             *)
(* pointer-down inside the canvas bounds starts a drawing session.         *)
C25_ShapesShadowDrawing ==
  [][DownStep =>
       /\ (\E k \in 1..Len(shapes) : BoxContains(k, ptr')) =>
            /\ isDrawing' = FALSE
            /\ startPoint' = Null
            /\ currentPoint' = Null
       /\ (HasWholeArea /\ InCanvas(ptr')) => isDrawing' = FALSE]_vars

(* C25, the stronger consequence: while a whole-area rectangle is in the   *)
(* collection, no rectangle/square is added by drawing. It fails for a     *)
(* drawing session that was open when select-whole-area was activated.     *)
C25_NoDrawingUnderWholeArea ==
  [][(HasWholeArea /\ (UpStep \/ LeaveStep)) =>
       ~(/\ Len(shapes') = Len(shapes) + 1
         /\ shapes'[Len(shapes')].type \in {"rectangle", "square"})]_vars

(* A press at (40,18) in rectangle mode with the whole-area rectangle in   *)
(* the collection: a shape drag, no drawing session.                       *)
C25_Witness ==
  /\ btn = "down"
  /\ ptr = Pt(40, 18)
  /\ drawingMode = "rectangle"
  /\ HasWholeArea
  /\ dragInfo # Null
  /\ ~isDrawing
  /\ startPoint = Null

---------------------------------------------------------------------------
(* Degenerate shapes *)

DegenerateAt(point, mode) ==
  [type |-> mode, points |-> <<point, point, point, point, point>>]

IsDegenerate(shape) ==
  \A k \in 1..Len(shape.points) : shape.points[k] = shape.points[1]

(* The press on empty canvas that started a drawing session is still the   *)
(* last pointer event: nothing moved the pointer since.                    *)
Tapped ==
  /\ btn = "down"
  /\ isDrawing
  /\ drawingMode \in {"rectangle", "square"}
  /\ startPoint = ptr
  /\ currentPoint = ptr

(* C26: in Rectangle or Square mode, the pointer-up (and the pointer-leave)*)
(* that follows a press on empty canvas with no move in between appends a  *)
(* shape of the mode's type whose five vertices all equal the press point; *)
(* no finalize path rejects it, and Submit counts and logs every shape of  *)
(* the collection, the degenerate ones included.                           *)
C26_TapAppendsDegenerate ==
  [][/\ (Tapped /\ (UpStep \/ LeaveStep)) =>
          shapes' = Append(shapes, DegenerateAt(ptr, drawingMode))
     /\ (SubmitStep /\ \E k \in 1..Len(shapes) : IsDegenerate(shapes[k])) =>
          /\ last'.toast = "success"
          /\ last'.count = Len(shapes)
          /\ \A k \in 1..Len(shapes) : last'.logged[k] = shapes[k].points]_vars

(* C26, reached: a degenerate square at (0,0) and a degenerate rectangle   *)
(* at (40,18), submitted as two shapes.                                    *)
C26_Witness ==
  /\ shapes = <<DegenerateAt(Pt(0, 0), "square"), DegenerateAt(Pt(40, 18), "rectangle")>>
  /\ last.toast = "success"
  /\ last.count = 2
  /\ last.logged[2] = <<Pt(40, 18), Pt(40, 18), Pt(40, 18), Pt(40, 18), Pt(40, 18)>>

---------------------------------------------------------------------------
(* The staged polygon vertices *)

(* C27: the staged vertices are emptied only by the click that closes the  *)
(* polygon: pointer-leave, Clear, select-whole-area, Submit and the mode   *)
(* buttons leave the staged list unchanged, a pointer-up outside Polygon   *)
(* mode leaves it unchanged, and a pointer-up in Polygon mode either       *)
(* closes the polygon or stages the release point after the vertices       *)
(* already staged; so the list staged before the mode left Polygon is      *)
(* still there when Polygon is selected again.                             *)
C27_StagedKept ==
  [][/\ (Len(activePolygon') < Len(activePolygon)) =>
          (ClosingClick /\ activePolygon' = <<>>)
     /\ (LeaveStep \/ SubmitStep \/ onClear \/ onSelectWholeArea
           \/ onSetDrawingMode("rectangle") \/ onSetDrawingMode("polygon")) =>
          activePolygon' = activePolygon
     /\ (UpStep /\ drawingMode # "polygon") => activePolygon' = activePolygon
     /\ (UpStep /\ drawingMode = "polygon" /\ ~ClosingClick) =>
          activePolygon' = Append(activePolygon, ptr)]_vars

(* C27, reached: two vertices staged in Polygon mode are still staged in   *)
(* Rectangle mode, with a whole-area rectangle added and submitted.        *)
C27_Witness ==
  /\ drawingMode = "rectangle"
  /\ activePolygon = <<Pt(0, 18), Pt(40, 18)>>
  /\ shapes = <<wholeAreaShape>>
  /\ last.toast = "success"

---------------------------------------------------------------------------
(* The microphone buttons of the speech dialog *)

(* C28: in every reachable state of the speech dialog isPaused implies     *)
(* isActiveMic, so the open dialog shows exactly one of the Mic, Resume    *)
(* (MicOff) and Pause buttons; toggleMic changes nothing while streamRef   *)
(* holds no stream, so the dialog is paused only while a stream is held.   *)
C28_PausedImpliesActive ==
  /\ [](/\ isPaused => (isActiveMic /\ streamRef # Null)
        /\ dialogOpen =>
             Cardinality({b \in {"Mic", "MicOff", "Pause"} : buttonShown(b)}) = 1)
  /\ [][(onToggleMic /\ streamRef = Null) => UNCHANGED speech]_vars

(* C28, reached: the dialog paused by toggleMic, the Resume button shown   *)
(* and the tracks of the held stream disabled.                             *)
C28_Witness ==
  /\ isPaused
  /\ isActiveMic
  /\ buttonShown("MicOff")
  /\ streamRef # Null
  /\ tracks[streamRef.request] = "disabled"

---------------------------------------------------------------------------
(* The dashboard *)

(* The steps that change the component list and so run the grid's effect *)
AddStep == lastCall'.op = "add"
DeleteStep == lastCall'.op = "delete"

(* Where the item of an id stands in a list of components or of layout     *)
(* items                                                                   *)
PosOf(list, id) == CHOOSE k \in 1..Len(list) : list[k]._id = id

PosIn(layout, id) == CHOOSE k \in 1..Len(layout) : layout[k].i = id

(* C29: after the grid's effect has run for a component list, the ids of   *)
(* the layout items are the ids of the components, one item each: the      *)
(* items of deleted components are gone, the surviving items are the same  *)
(* records (position and size) in the same relative order, and the items   *)
(* of new components, with the configuration of their type, come after     *)
(* them in component-list order.                                           *)
C29_LayoutFollowsList ==
  /\ [](/\ LayoutIds(layoutValue) = IdsOf(componentList)
        /\ Len(layoutValue) = Cardinality(IdsOf(componentList)))
  /\ [][(AddStep \/ DeleteStep) =>
          LET old == LayoutIds(layoutValue)
              n == Len(layoutValue')
          IN /\ \A k \in 1..Len(layoutValue) :
                    layoutValue[k].i \in IdsOf(componentList') =>
                      \E j \in 1..n : layoutValue'[j] = layoutValue[k]
             /\ \A j \in 1..n : \A k \in (j + 1)..n :
                    LET a == layoutValue'[j].i
                        b == layoutValue'[k].i
                    IN /\ b \in old => a \in old
                       /\ (a \in old /\ b \in old) =>
                            PosIn(layoutValue, a) < PosIn(layoutValue, b)
                       /\ (a \notin old /\ b \notin old) =>
                            PosOf(componentList', a) < PosOf(componentList', b)
             /\ \A j \in 1..n :
                    layoutValue'[j].i \notin old =>
                      /\ layoutValue'[j].x = 0 /\ layoutValue'[j].y = Infinity
                      /\ layoutValue'[j].w = 4 /\ layoutValue'[j].h = 2]_vars

(* C29, reached: component 1 deleted, the item of component 2 still where  *)
(* the grid had put it, and the item of the new component 3 after it.      *)
C29_Witness ==
  /\ lastCall.op = "add"
  /\ Len(componentList) = 2
  /\ componentList[1]._id = 2
  /\ componentList[2]._id = 3
  /\ Len(layoutValue) = 2
  /\ layoutValue[1].i = 2 /\ layoutValue[1].x = 4 /\ layoutValue[1].w = 6
  /\ layoutValue[2].i = 3 /\ layoutValue[2].y = Infinity

(* C30: addComponent appends exactly one item, of the given type and with  *)
(* an id not in the list, at the end; deleteComponent(id) removes exactly  *)
(* the item with that id, the other items staying as they are and in their *)
(* relative order; deleting an id that is not in the list leaves the list  *)
(* unchanged.                                                              *)
C30_ListOperations ==
  [][/\ AddStep =>
          /\ lastCall'.id \notin IdsOf(componentList)
          /\ componentList' =
               componentList \o <<[_id |-> lastCall'.id, componentName |-> lastCall'.type]>>
     /\ DeleteStep =>
          LET n == Len(componentList')
          IN /\ IdsOf(componentList') = IdsOf(componentList) \ {lastCall'.id}
             /\ n = Cardinality(IdsOf(componentList'))
             /\ \A j \in 1..n :
                    /\ \E k \in 1..Len(componentList) : componentList[k] = componentList'[j]
                    /\ \A k \in (j + 1)..n :
                         PosOf(componentList, componentList'[j]._id)
                           < PosOf(componentList, componentList'[k]._id)
             /\ lastCall'.id \notin IdsOf(componentList) => componentList' = componentList]_vars

(* C30, reached: a pie chart added as component 2, component 1 deleted,    *)
(* and then deleteComponent called with the id 3, which was never handed   *)
(* out.                                                                    *)
C30_Witness ==
  /\ componentList = <<[_id |-> 2, componentName |-> "PieChartComponent"]>>
  /\ usedIds = {1, 2}
  /\ lastCall = [op |-> "delete", id |-> 3, type |-> ""]

====
